---- MODULE Spec2Model ----
(***************************************************************************)
(* Model of backend/multi_provider_extractor.py: provider detection,       *)
(* the AJ Bell and Morningstar extractors and main's dispatch.             *)
(*                                                                         *)
(* A text is a sequence of lexemes.  A lexeme is a whole word (a maximal   *)
(* run of letters) or one single non-letter character (a digit, a          *)
(* punctuation sign, a blank, a newline).  Every regular expression of the *)
(* source is written as the sequence of its atoms and run by a             *)
(* backtracking matcher with Python's priorities (leftmost start, greedy   *)
(* and lazy quantifiers, alternatives in order, look-ahead).  No word of   *)
(* the input alphabet properly contains a word that a pattern spells, so   *)
(* matching on lexemes and matching on characters pick the same spans.     *)
(* Numbers are exact rationals [n, d] in lowest terms; binary rounding of  *)
(* a Python float is not modelled.  A str that may be None is [str |-> s], *)
(* None is [none |-> TRUE].  The dict keys keep the names of the source    *)
(* (total_value, account_number, client_name).                             *)
(*                                                                         *)
(* One run of main is one behaviour: the text on stdin is drawn from       *)
(* bounded sets of classifier texts, AJ Bell statements and Morningstar    *)
(* reports, each a concatenation of a few fragments.                       *)
(***************************************************************************)
EXTENDS Integers, Sequences, FiniteSets, TLC

VARIABLES
  text,      \* what main reads from stdin
  pc,        \* where main stands: "start", "dispatch", "done", "raised"
  provider,  \* the label detect_provider returned
  invoked,   \* the branch of main's dispatch that ran
  result     \* the record main prints
vars == <<text, pc, provider, invoked, result>>

(* ------------------------------ bounds -------------------------------- *)
MaxClsFrags == 2
MaxAJFrags == 3
MaxMSFrags == 3

(* ------------------------- lexemes and classes ------------------------ *)
SP == " "
NL == "\n"
Digit == {"0", "1", "2", "3", "4", "5", "6", "7", "8", "9"}
DigitComma == Digit \cup {","}
DigitDot == Digit \cup {"."}
Space == {SP, NL}
\* [A-Z][a-z]+ : the words of the alphabet that are one capital then small letters
CapWord == {"John", "Smith", "Jane", "Doe", "Total", "Performance", "Holdings",
            "Analysis", "Cash", "Change", "Time", "Bell", "Morningstar",
            "Investment", "Portfolio", "Valuation", "Return", "Returns",
            "In", "Out", "Mr", "Mrs", "Ms", "Cashflow"}

DigitVal(c) ==
  CASE c = "0" -> 0 [] c = "1" -> 1 [] c = "2" -> 2 [] c = "3" -> 3
    [] c = "4" -> 4 [] c = "5" -> 5 [] c = "6" -> 6 [] c = "7" -> 7
    [] c = "8" -> 8 [] c = "9" -> 9

(* ----------------------------- str methods ---------------------------- *)
\* str.lower(), lexeme by lexeme: the words of the alphabet that hold a capital
Lowercase ==
  [AJ |-> "aj", Bell |-> "bell", BELL |-> "bell", AJBell |-> "ajbell",
   Morningstar |-> "morningstar", MORNINGSTAR |-> "morningstar",
   Cashflow |-> "cashflow", CASHFLOW |-> "cashflow",
   ISA |-> "isa", SIPP |-> "sipp", SCC |-> "scc", PREPARED |-> "prepared",
   FOR |-> "for", John |-> "john", Smith |-> "smith", Jane |-> "jane",
   Doe |-> "doe", Total |-> "total", Performance |-> "performance",
   Holdings |-> "holdings", Analysis |-> "analysis", Cash |-> "cash",
   Change |-> "change", Time |-> "time", Investment |-> "investment",
   Portfolio |-> "portfolio", Valuation |-> "valuation", Return |-> "return",
   Returns |-> "returns", In |-> "in", Out |-> "out", Mr |-> "mr",
   Mrs |-> "mrs", Ms |-> "ms"]

LowerLexeme(l) == IF l \in DOMAIN Lowercase THEN Lowercase[l] ELSE l

lower(t) == [i \in 1..Len(t) |-> LowerLexeme(t[i])]

\* the lexemes of s at position i of t
LitAt(t, i, s) ==
  /\ i + Len(s) - 1 <= Len(t)
  /\ \A j \in 1..Len(s) : t[i + j - 1] = s[j]

\* Python's  s in t
Contains(t, s) == \E i \in 1..(Len(t) - Len(s) + 1) : LitAt(t, i, s)

\* str.replace(',', '')
StripCommas(s) == SelectSeq(s, LAMBDA c : c # ",")

\* str.strip()
RECURSIVE LStrip(_)
LStrip(s) == IF s # <<>> /\ Head(s) \in Space THEN LStrip(Tail(s)) ELSE s

RECURSIVE RStrip(_)
RStrip(s) ==
  IF s # <<>> /\ s[Len(s)] \in Space THEN RStrip(SubSeq(s, 1, Len(s) - 1)) ELSE s

strip(s) == RStrip(LStrip(s))

(* ------------------------------- float -------------------------------- *)
RECURSIVE Gcd(_, _)
Gcd(a, b) == IF b = 0 THEN a ELSE Gcd(b, a % b)

Num(n, d) == LET g == Gcd(n, d) IN [n |-> n \div g, d |-> d \div g]
Zero == Num(0, 1)
FloatAdd(a, b) == Num(a.n * b.d + b.n * a.d, a.d * b.d)
FloatDiv(a, k) == Num(a.n, a.d * k)

RECURSIVE DigitsVal(_)
DigitsVal(s) == IF s = <<>> THEN 0 ELSE 10 * DigitsVal(SubSeq(s, 1, Len(s) - 1)) + DigitVal(s[Len(s)])

RECURSIVE Pow10(_)
Pow10(k) == IF k = 0 THEN 1 ELSE 10 * Pow10(k - 1)

\* float(s) accepts, of the strings over digits and dots, those with at most one
\* dot and at least one digit; every other one raises ValueError
FloatOk(s) ==
  /\ Len(SelectSeq(s, LAMBDA c : c = ".")) <= 1
  /\ Len(SelectSeq(s, LAMBDA c : c \in Digit)) >= 1
  /\ \A i \in 1..Len(s) : s[i] \in DigitDot

\* the value of an accepted string: its digits over ten to the number of digits
\* after the dot
float(s) ==
  LET ds == SelectSeq(s, LAMBDA c : c \in Digit)
      hasDot == \E i \in 1..Len(s) : s[i] = "."
      dot == IF hasDot THEN CHOOSE i \in 1..Len(s) : s[i] = "." ELSE Len(s)
  IN Num(DigitsVal(ds), Pow10(Len(s) - dot))

(* --------------------------- regex matcher ---------------------------- *)
Lit(s) == [k |-> "lit", s |-> s]
\* c{n}, c+, c*, c*?  for a class c of lexemes
Times(c, n) == [k |-> "cls", c |-> c, lo |-> n, hi |-> n, unb |-> FALSE, lazy |-> FALSE]
Plus(c) == [k |-> "cls", c |-> c, lo |-> 1, hi |-> 1, unb |-> TRUE, lazy |-> FALSE]
Star(c) == [k |-> "cls", c |-> c, lo |-> 0, hi |-> 0, unb |-> TRUE, lazy |-> FALSE]
LazyStar(c) == [k |-> "cls", c |-> c, lo |-> 0, hi |-> 0, unb |-> TRUE, lazy |-> TRUE]
Open == [k |-> "open"]
Close == [k |-> "close"]
Alt(alts) == [k |-> "alt", alts |-> alts]
Look(alts) == [k |-> "look", alts |-> alts]
Rep(r, lo) == [k |-> "rep", r |-> r, lo |-> lo]
Eos == [k |-> "eos"]
Eol == [k |-> "eol"]

\* the longest run of lexemes of class c at position i
RECURSIVE RunLen(_, _, _)
RunLen(t, i, c) ==
  IF i > Len(t) \/ t[i] \notin c THEN 0 ELSE 1 + RunLen(t, i + 1, c)

\* M: the match of the atoms re at position i, <<end, group start, group end>>
\* of the first way to match in backtracking order, or <<>> when there is none
RECURSIVE M(_, _, _, _, _)
RECURSIVE Greedy(_, _, _, _, _, _, _)
RECURSIVE Lazy(_, _, _, _, _, _, _)
RECURSIVE FirstAlt(_, _, _, _, _, _, _)

Greedy(rest, t, i, c, lo, gs, ge) ==
  IF c < lo THEN <<>>
  ELSE LET r == M(rest, t, i + c, gs, ge)
       IN IF r # <<>> THEN r ELSE Greedy(rest, t, i, c - 1, lo, gs, ge)

Lazy(rest, t, i, c, hi, gs, ge) ==
  IF c > hi THEN <<>>
  ELSE LET r == M(rest, t, i + c, gs, ge)
       IN IF r # <<>> THEN r ELSE Lazy(rest, t, i, c + 1, hi, gs, ge)

FirstAlt(alts, a, rest, t, i, gs, ge) ==
  IF a > Len(alts) THEN <<>>
  ELSE LET r == M(alts[a] \o rest, t, i, gs, ge)
       IN IF r # <<>> THEN r ELSE FirstAlt(alts, a + 1, rest, t, i, gs, ge)

M(re, t, i, gs, ge) ==
  IF re = <<>> THEN <<i, gs, ge>>
  ELSE LET a == Head(re)
           rest == Tail(re)
       IN CASE a.k = "lit" ->
                 IF LitAt(t, i, a.s) THEN M(rest, t, i + Len(a.s), gs, ge) ELSE <<>>
            [] a.k = "cls" ->
                 LET run == RunLen(t, i, a.c)
                     m == IF a.unb \/ run <= a.hi THEN run ELSE a.hi
                 IN IF m < a.lo THEN <<>>
                    ELSE IF a.lazy THEN Lazy(rest, t, i, a.lo, m, gs, ge)
                    ELSE Greedy(rest, t, i, m, a.lo, gs, ge)
            [] a.k = "open" -> M(rest, t, i, i, ge)
            [] a.k = "close" -> M(rest, t, i, gs, i)
            [] a.k = "alt" -> FirstAlt(a.alts, 1, rest, t, i, gs, ge)
            [] a.k = "look" ->
                 IF FirstAlt(a.alts, 1, <<>>, t, i, gs, ge) # <<>>
                   THEN M(rest, t, i, gs, ge) ELSE <<>>
            [] a.k = "rep" ->
                 LET r == M(a.r \o <<Rep(a.r, 0)>> \o rest, t, i, gs, ge)
                 IN IF r # <<>> THEN r
                    ELSE IF a.lo = 0 THEN M(rest, t, i, gs, ge) ELSE <<>>
            [] a.k = "eos" ->
                 IF i = Len(t) + 1 \/ (i = Len(t) /\ t[i] = NL)
                   THEN M(rest, t, i, gs, ge) ELSE <<>>
            [] a.k = "eol" ->
                 IF i = Len(t) + 1 \/ (i <= Len(t) /\ t[i] = NL)
                   THEN M(rest, t, i, gs, ge) ELSE <<>>

\* re.search: the match at the leftmost start, as a match object
\* [s, e: span of group 0; gs, ge: span of group 1], or None
None == [none |-> TRUE]
\* a Python str where None may stand instead
Str(s) == [str |-> s]

RECURSIVE SearchFrom(_, _, _)
SearchFrom(re, t, i) ==
  IF i > Len(t) + 1 THEN None
  ELSE LET r == M(re, t, i, 0, 0)
       IN IF r # <<>> THEN [s |-> i, e |-> r[1], gs |-> r[2], ge |-> r[3]]
          ELSE SearchFrom(re, t, i + 1)

search(re, t) == SearchFrom(re, t, 1)

group0(t, m) == SubSeq(t, m.s, m.e - 1)
group1(t, m) == SubSeq(t, m.gs, m.ge - 1)

(* ------------------------ the patterns of the source ------------------ *)
Pound == "£"
\* the lexemes the inputs are written with; "." without DOTALL is any but newline
Alphabet ==
  Digit \cup Space \cup DOMAIN Lowercase \cup
  {",", ".", "-", "%", "(", ")", ":", "/", "aj", "bell", "ajbell", "morningstar",
   "cashflow", "summary", "held", "weighted", "return", "in", Pound}
Dot == Alphabet \ {NL}

\* [\d,]+\.\d{2}
Amount == <<Plus(DigitComma), Lit(<<".">>), Times(Digit, 2)>>
\* ([\d,]+\.\d{2})
AmountGroup == <<Open>> \o Amount \o <<Close>>
\* ([\d.]+)%
PercentGroup == <<Open, Plus(DigitDot), Close, Lit(<<"%">>)>>

W(a, b) == <<a, SP, b>>
IsaSummary == <<"ISA", SP, "-", SP, "Performance", SP, "summary">>
IsaAnalysis == <<"ISA", SP, "-", SP, "Performance", SP, "Analysis">>
IsaHoldings == <<"ISA", SP, "-", SP, "Holdings">>
SippSummary == <<"SIPP", SP, "-", SP, "Performance", SP, "summary">>
SippAnalysis == <<"SIPP", SP, "-", SP, "Performance", SP, "Analysis">>
SippHoldings == <<"SIPP", SP, "-", SP, "Holdings">>
InvestmentHeld == <<"Investment", SP, "held", ":">>

\* (Mr|Mrs|Ms)\s+([A-Z][a-z]+(?:\s+[A-Z][a-z]+)+)
ReAjClient ==
  <<Alt(<<<<Lit(<<"Mr">>)>>, <<Lit(<<"Mrs">>)>>, <<Lit(<<"Ms">>)>>>>),
    Plus(Space), Times(CapWord, 1), Rep(<<Plus(Space), Times(CapWord, 1)>>, 1)>>
\* (SCC\d+)
ReAjAccount == <<Open, Lit(<<"SCC">>), Plus(Digit), Close>>
\* ISA - Performance summary.*?(?=ISA - Performance Analysis|ISA - Holdings|$), DOTALL
ReAjIsaSection ==
  <<Lit(IsaSummary), LazyStar(Alphabet),
    Look(<<<<Lit(IsaAnalysis)>>, <<Lit(IsaHoldings)>>, <<Eos>>>>)>>
\* the Total row with the group around its first amount
ReAjHoldingsFirstAmount ==
  <<Lit(<<"Total">>), Plus(Space), Lit(<<"-">>), Plus(Space)>> \o AmountGroup \o
  <<Plus(Space), Lit(<<"-">>), Plus(Space)>> \o Amount

\* Total\s+-\s+[\d,]+\.\d{2}\s+-\s+([\d,]+\.\d{2})
ReAjHoldings ==
  <<Lit(<<"Total">>), Plus(Space), Lit(<<"-">>), Plus(Space)>> \o Amount \o
  <<Plus(Space), Lit(<<"-">>), Plus(Space)>> \o AmountGroup
\* £([\d,]+\.\d{2})\s+[\d.]+%
ReAjValue ==
  <<Lit(<<Pound>>)>> \o AmountGroup \o <<Plus(Space), Plus(DigitDot), Lit(<<"%">>)>>
\* Cash in.*?£([\d,]+\.\d{2})
ReAjContrib ==
  <<Lit(W("Cash", "in")), LazyStar(Dot), Lit(<<Pound>>)>> \o AmountGroup
\* ([\d.]+)%\s*$, MULTILINE
ReAjPerf == PercentGroup \o <<Star(Space), Eol>>
\* Time-weighted return.*?([\d.]+)%, DOTALL
ReAjPerfFallback ==
  <<Lit(<<"Time", "-", "weighted", SP, "return">>), LazyStar(Alphabet)>> \o PercentGroup
\* Total.*?Change.*?([\d,]+\.\d{2}), DOTALL
ReAjChange ==
  <<Lit(<<"Total">>), LazyStar(Alphabet), Lit(<<"Change">>), LazyStar(Alphabet)>>
  \o AmountGroup
\* Change \(£\).*?([\d,]+\.\d{2}), DOTALL
ReAjChangeFallback ==
  <<Lit(<<"Change", SP, "(", Pound, ")">>), LazyStar(Alphabet)>> \o AmountGroup
\* SIPP - Performance summary.*?(?=SIPP - Performance Analysis|SIPP - Holdings|$), DOTALL
ReAjSippSection ==
  <<Lit(SippSummary), LazyStar(Alphabet),
    Look(<<<<Lit(SippAnalysis)>>, <<Lit(SippHoldings)>>, <<Eos>>>>)>>

\* PREPARED FOR\s+((?:Ms\.|Mr\.|Mrs\.)\s+[A-Z][a-z]+(?:\s+[A-Z][a-z]+)*)
ReMsClient ==
  <<Lit(W("PREPARED", "FOR")), Plus(Space), Open,
    Alt(<<<<Lit(<<"Ms", ".">>)>>, <<Lit(<<"Mr", ".">>)>>, <<Lit(<<"Mrs", ".">>)>>>>),
    Plus(Space), Times(CapWord, 1), Rep(<<Plus(Space), Times(CapWord, 1)>>, 0), Close>>
\* Investment held:\s*<kind>.*?(?=Investment held:|$), DOTALL
ReMsSection(kind) ==
  <<Lit(InvestmentHeld), Star(Space), Lit(<<kind>>), LazyStar(Alphabet),
    Look(<<<<Lit(InvestmentHeld)>>, <<Eos>>>>)>>
\* Portfolio Valuation\s*£([\d,]+\.\d{2})
ReMsValuation ==
  <<Lit(W("Portfolio", "Valuation")), Star(Space), Lit(<<Pound>>)>> \o AmountGroup
\* Total In/Out\s*£([\d,]+\.\d{2})
ReMsInOut ==
  <<Lit(<<"Total", SP, "In", "/", "Out">>), Star(Space), Lit(<<Pound>>)>> \o AmountGroup
\* Total Return\s*£([\d,]+\.\d{2})
ReMsReturn ==
  <<Lit(W("Total", "Return")), Star(Space), Lit(<<Pound>>)>> \o AmountGroup
\* Portfolio % Returns\s*([\d.]+)%
ReMsPerf ==
  <<Lit(<<"Portfolio", SP, "%", SP, "Returns">>), Star(Space)>> \o PercentGroup

(* ----------------------------- the program ---------------------------- *)
\* the rules with the Morningstar test ahead of the AJ Bell test
detect_provider_reordered(t) ==
  LET text_lower == lower(t)
  IN IF Contains(text_lower, <<"morningstar">>) THEN "MORNINGSTAR"
     ELSE IF Contains(text_lower, <<"aj", SP, "bell">>) \/ Contains(text_lower, <<"ajbell">>)
       THEN "AJ_BELL"
     ELSE IF \/ Contains(text_lower, <<"cashflow">>)
             \/ Contains(text_lower, <<"5", "7", "4", "6", "1", "1">>)
       THEN "CASHFLOW"
     ELSE "UNKNOWN"

detect_provider(t) ==
  LET text_lower == lower(t)
  IN IF Contains(text_lower, <<"aj", SP, "bell">>) \/ Contains(text_lower, <<"ajbell">>)
       THEN "AJ_BELL"
     ELSE IF Contains(text_lower, <<"morningstar">>) THEN "MORNINGSTAR"
     ELSE IF \/ Contains(text_lower, <<"cashflow">>)
             \/ Contains(text_lower, <<"5", "7", "4", "6", "1", "1">>)
       THEN "CASHFLOW"
     ELSE "UNKNOWN"

\* float(m.group(1).replace(',', '')) if m else 0 : the captured string, and its value
Captured(t, m) == StripCommas(group1(t, m))
Parses(t, m) == m = None \/ FloatOk(Captured(t, m))
ValueOr0(t, m) == IF m = None THEN Zero ELSE float(Captured(t, m))

Raised == [raised |-> "ValueError"]
\* the dict {}
EmptyDict == <<>>

\* the ISA account of extract_aj_bell, or Raised when a float() raises
AjIsaAccount(t, isa_text, account_number) ==
  LET holdings_match == search(ReAjHoldings, t)
      value_match == IF holdings_match # None THEN holdings_match
                     ELSE search(ReAjValue, isa_text)
      value_src == IF holdings_match # None THEN t ELSE isa_text
      contrib_match == search(ReAjContrib, t)
      perf1 == search(ReAjPerf, isa_text)
      perf_match == IF perf1 # None THEN perf1 ELSE search(ReAjPerfFallback, t)
      perf_src == IF perf1 # None THEN isa_text ELSE t
      change1 == search(ReAjChange, t)
      change_match == IF change1 # None THEN change1
                      ELSE search(ReAjChangeFallback, t)
  IN IF /\ Parses(value_src, value_match)
        /\ Parses(t, contrib_match)
        /\ Parses(perf_src, perf_match)
        /\ Parses(t, change_match)
       THEN [type |-> "ISA",
             provider |-> "AJ Bell",
             account_number |-> account_number,
             value |-> ValueOr0(value_src, value_match),
             contributions |-> ValueOr0(t, contrib_match),
             return |-> ValueOr0(t, change_match),
             performance |-> ValueOr0(perf_src, perf_match)]
       ELSE Raised

\* data['performance'] after the accounts are known
AjPerformance(accounts) ==
  IF accounts # <<>> THEN [oneYearReturn |-> accounts[1].performance] ELSE EmptyDict

\* a total that forgets all but the last account
SumValuesLastOnly(accounts) ==
  IF accounts = <<>> THEN Zero ELSE accounts[Len(accounts)].value

\* data['total_value'] += account['value'], once per appended account
RECURSIVE SumValues(_)
SumValues(accounts) ==
  IF accounts = <<>> THEN Zero
  ELSE FloatAdd(SumValues(SubSeq(accounts, 1, Len(accounts) - 1)),
                accounts[Len(accounts)].value)

extract_aj_bell(t) ==
  LET client_match == search(ReAjClient, t)
      client_name == IF client_match # None THEN Str(strip(group0(t, client_match))) ELSE None
      acc_match == search(ReAjAccount, t)
      account_number == IF acc_match # None THEN Str(group1(t, acc_match)) ELSE None
      isa_section == search(ReAjIsaSection, t)
      account == AjIsaAccount(t, group0(t, isa_section), account_number)
      accounts == IF isa_section # None THEN <<account>> ELSE <<>>
      total_value == IF isa_section # None THEN FloatAdd(Zero, account.value) ELSE Zero
      \* "if sipp_section: pass": found or not, nothing is done with it
      sipp_section == search(ReAjSippSection, t)
  IN IF isa_section # None /\ account = Raised THEN Raised
     ELSE [provider |-> "AJ Bell",
           client_name |-> client_name,
           accounts |-> accounts,
           total_value |-> total_value,
           performance |-> AjPerformance(accounts)]

\* one wrapper kind in extract_morningstar: the accounts it appends (none when the
\* span or the valuation is missing), or raised when a float() raises
MsAccount(t, kind) ==
  LET section == search(ReMsSection(kind), t)
      section_text == group0(t, section)
      val_match == search(ReMsValuation, section_text)
      contrib_match == search(ReMsInOut, section_text)
      return_match == search(ReMsReturn, section_text)
      perf_match == search(ReMsPerf, section_text)
  IN IF section = None THEN [raised |-> FALSE, accounts |-> <<>>]
     ELSE IF val_match = None THEN [raised |-> FALSE, accounts |-> <<>>]
     ELSE IF /\ Parses(section_text, val_match)
             /\ Parses(section_text, contrib_match)
             /\ Parses(section_text, return_match)
             /\ Parses(section_text, perf_match)
       THEN [raised |-> FALSE,
             accounts |-> <<[type |-> kind,
                             provider |-> "Morningstar",
                             value |-> ValueOr0(section_text, val_match),
                             contributions |-> ValueOr0(section_text, contrib_match),
                             return |-> ValueOr0(section_text, return_match),
                             performance |-> ValueOr0(section_text, perf_match)]>>]
     ELSE [raised |-> TRUE, accounts |-> <<>>]

RECURSIVE SumPerformance(_)
SumPerformance(accounts) ==
  IF accounts = <<>> THEN Zero
  ELSE FloatAdd(SumPerformance(SubSeq(accounts, 1, Len(accounts) - 1)),
                accounts[Len(accounts)].performance)

\* the summary taken from the first account, as the AJ Bell extractor does
MsPerformanceFirst(accounts) ==
  IF accounts # <<>> THEN [oneYearReturn |-> accounts[1].performance] ELSE EmptyDict

\* data['performance'] after the accounts are known
MsPerformance(accounts) ==
  IF accounts # <<>>
    THEN [oneYearReturn |-> FloatDiv(SumPerformance(accounts), Len(accounts))]
    ELSE EmptyDict

\* the wrappers taken in the order SIPP, ISA
extract_morningstar_sipp_first(t) ==
  LET client_match == search(ReMsClient, t)
      client_name == IF client_match # None THEN Str(strip(group1(t, client_match))) ELSE None
      isa == MsAccount(t, "ISA")
      sipp == MsAccount(t, "SIPP")
      accounts == sipp.accounts \o isa.accounts
  IN IF isa.raised \/ sipp.raised THEN Raised
     ELSE [provider |-> "Morningstar",
           client_name |-> client_name,
           accounts |-> accounts,
           total_value |-> SumValues(accounts),
           performance |-> MsPerformance(accounts)]

extract_morningstar(t) ==
  LET client_match == search(ReMsClient, t)
      client_name == IF client_match # None THEN Str(strip(group1(t, client_match))) ELSE None
      isa == MsAccount(t, "ISA")
      sipp == MsAccount(t, "SIPP")
      accounts == isa.accounts \o sipp.accounts
  IN IF isa.raised \/ sipp.raised THEN Raised
     ELSE [provider |-> "Morningstar",
           client_name |-> client_name,
           accounts |-> accounts,
           total_value |-> SumValues(accounts),
           performance |-> MsPerformance(accounts)]

\* the fallback built from the extractors' template, with its performance dict
FallbackFromTemplate ==
  [provider |-> "Unknown",
   error |-> "Provider not recognized",
   accounts |-> <<>>,
   total_value |-> Zero,
   performance |-> EmptyDict]

Fallback ==
  [provider |-> "Unknown",
   error |-> "Provider not recognized",
   accounts |-> <<>>,
   total_value |-> Zero]

(* ------------------------------ the inputs ---------------------------- *)
RECURSIVE Flatten(_)
Flatten(ss) == IF ss = <<>> THEN <<>> ELSE Head(ss) \o Flatten(Tail(ss))

\* the texts made of at most n fragments of the sequence frags
Texts(frags, n) ==
  {Flatten([i \in 1..Len(c) |-> frags[c[i]]]) :
     c \in UNION {[1..k -> 1..Len(frags)] : k \in 0..n}}

Amt1 == <<"1", ",", "2", "3", "4", ".", "5", "6">>
Amt2 == <<"2", ",", "3", "4", "5", ".", "6", "7">>

\* texts for the classifier: markers in several cases, near misses, filler
ClsFrags ==
  <<<<"AJ", SP, "Bell", SP>>,
    <<"AJBell", NL>>,
    <<"MORNINGSTAR", SP>>,
    <<"Cashflow", SP>>,
    <<"5", "7", "4", "6", "1">>,
    <<"1", SP>>,
    <<"AJ", NL, "bell", SP>> >>

\* AJ Bell statements
AjHead == <<"AJ", SP, "Bell", NL>>
AjFrags ==
  <<IsaSummary \o <<NL>>,
    IsaHoldings \o <<NL>>,
    <<"Total", SP, "-", SP>> \o Amt1 \o <<SP, "-", SP>> \o Amt2 \o <<NL>>,
    <<Pound, "1", "0", ".", "0", "0", SP, "4", ".", "0", "%", NL>>,
    <<Pound, "3", ".", "0", "0", SP, "1", ".", "2", ".", "3", "%", NL>>,
    <<Pound, ",", ",", ".", "5", "0", SP, "2", "%", NL>>,
    <<"Cash", SP, "in", SP, Pound, "5", ".", "0", "0", SP,
      "Change", SP, "(", Pound, ")", SP, "7", ".", "0", "0", NL>>,
    SippSummary \o <<NL>>,
    <<"Time", "-", "weighted", SP, "return", SP, "6", ".", "5", "%", SP,
      "Mr", SP, "John", SP, "Smith", SP, "SCC", "1", "2", SP>> >>

\* Morningstar reports
MsHead == <<"Morningstar", NL>>
PortfolioValuation == <<"Portfolio", SP, "Valuation", SP, Pound>>
PortfolioReturns == <<"Portfolio", SP, "%", SP, "Returns", SP>>
Valuation1 ==
  PortfolioValuation \o <<"1", "0", ",", "0", "0", "0", ".", "0", "0", SP>>
  \o PortfolioReturns \o <<"4", ".", "0", "%", NL>>
Valuation2 ==
  PortfolioValuation \o <<"5", ",", "0", "0", "0", ".", "0", "0", SP>>
  \o PortfolioReturns \o <<"6", ".", "0", "%", NL>>
MsFrags ==
  <<InvestmentHeld \o <<SP, "ISA", NL>> \o Valuation1,
    InvestmentHeld \o <<SP, "SIPP", NL>> \o Valuation2,
    InvestmentHeld \o <<SP, "ISA", NL>>,
    InvestmentHeld \o <<"SIPP", NL>>,
    PortfolioValuation \o <<"7", ".", "0", "0", SP>>
      \o PortfolioReturns \o <<"1", ".", "2", ".", "3", "%", NL>>,
    <<"PREPARED", SP, "FOR", SP, "Ms", ".", SP, "Jane", SP, "Doe", NL,
      "Total", SP, "In", "/", "Out", SP, Pound, "1", ".", "0", "0", SP,
      "Total", SP, "Return", SP, Pound, "2", ".", "0", "0", SP>>
      \o PortfolioReturns \o <<"6", ".", "0", "%", NL>>,
    <<"Portfolio", SP, "Valuation", Pound, "3", ".", "2", "5", NL>> >>

Inputs ==
  Texts(ClsFrags, MaxClsFrags)
  \cup {AjHead \o t : t \in Texts(AjFrags, MaxAJFrags)}
  \cup {MsHead \o t : t \in Texts(MsFrags, MaxMSFrags)}

(* --------------------------- the state machine ------------------------ *)
Unset == [unset |-> TRUE]

Init ==
  /\ text \in Inputs
  /\ pc = "start"
  /\ provider = "?"
  /\ invoked = "none"
  /\ result = Unset

\* main, lines 170-175: read the text, detect the provider, report it
Detect ==
  /\ pc = "start"
  /\ provider' = detect_provider(text)
  /\ pc' = "dispatch"
  /\ UNCHANGED <<text, invoked, result>>

\* the end of main for the value an extractor gave: the record is printed, or the
\* ValueError leaves main and nothing is printed
Finish(r) ==
  IF r = Raised
    THEN pc' = "raised" /\ UNCHANGED result
    ELSE pc' = "done" /\ result' = r

\* main, lines 178-179 and 191
ExtractAjBell ==
  /\ pc = "dispatch"
  /\ provider = "AJ_BELL"
  /\ invoked' = "extract_aj_bell"
  /\ Finish(extract_aj_bell(text))
  /\ UNCHANGED <<text, provider>>

\* main, lines 180-181 and 191
ExtractMorningstar ==
  /\ pc = "dispatch"
  /\ provider = "MORNINGSTAR"
  /\ invoked' = "extract_morningstar"
  /\ Finish(extract_morningstar(text))
  /\ UNCHANGED <<text, provider>>

\* main, lines 182-188 and 191
NotRecognized ==
  /\ pc = "dispatch"
  /\ provider \notin {"AJ_BELL", "MORNINGSTAR"}
  /\ invoked' = "fallback"
  /\ Finish(Fallback)
  /\ UNCHANGED <<text, provider>>

Next == Detect \/ ExtractAjBell \/ ExtractMorningstar \/ NotRecognized

Spec == Init /\ [][Next]_vars

(* ------------------------------- claims ------------------------------- *)
Returned == pc = "done"
Ended == pc \in {"done", "raised"}

\* the values of a sequence of accounts added from the first to the last,
\* as a fraction <<numerator, denominator>> that is not reduced
RECURSIVE C1_Fold(_, _, _)
C1_Fold(accounts, i, acc) ==
  IF i > Len(accounts) THEN acc
  ELSE C1_Fold(accounts, i + 1,
               <<acc[1] * accounts[i].value.d + accounts[i].value.n * acc[2],
                 acc[2] * accounts[i].value.d>>)

\* C1: every record main returns, whichever branch built it, has a total_value
\* equal to the sum of the value fields of its accounts taken in order, and 0
\* when it has no account.
C1_TotalIsSumOfValues ==
  Returned =>
    LET sum == C1_Fold(result.accounts, 1, <<0, 1>>)
    IN /\ result.total_value.n * sum[2] = sum[1] * result.total_value.d
       /\ (result.accounts = <<>> => result.total_value = [n |-> 0, d |-> 1])

C1_Witness ==
  /\ Returned
  /\ Len(result.accounts) = 2
  /\ result.accounts[1].value = [n |-> 10000, d |-> 1]
  /\ result.accounts[2].value = [n |-> 5000, d |-> 1]
  /\ result.total_value = [n |-> 15000, d |-> 1]

\* the markers of the classifier, read off the text without regard to case
C2_At(i, words) ==
  /\ i + Len(words) - 1 <= Len(text)
  /\ \A j \in 1..Len(words) : LowerLexeme(text[i + j - 1]) = words[j]
C2_Has(words) == \E i \in 1..Len(text) : C2_At(i, words)
C2_AjBell == C2_Has(<<"aj", " ", "bell">>) \/ C2_Has(<<"ajbell">>)
C2_Morningstar == C2_Has(<<"morningstar">>)
C2_Cashflow == C2_Has(<<"cashflow">>) \/ C2_Has(<<"5", "7", "4", "6", "1", "1">>)

\* C2: the label is AJ_BELL exactly when the text holds an AJ Bell marker,
\* MORNINGSTAR exactly when it holds "morningstar" and no AJ Bell marker, CASHFLOW
\* exactly when it holds a cashflow marker and none of the former, UNKNOWN
\* exactly otherwise; the label is always one of the four.
C2_OrderedFirstMatch ==
  pc # "start" =>
    /\ provider \in {"AJ_BELL", "MORNINGSTAR", "CASHFLOW", "UNKNOWN"}
    /\ (provider = "AJ_BELL") <=> C2_AjBell
    /\ (provider = "MORNINGSTAR") <=> (C2_Morningstar /\ ~C2_AjBell)
    /\ (provider = "CASHFLOW") <=> (C2_Cashflow /\ ~C2_Morningstar /\ ~C2_AjBell)
    /\ (provider = "UNKNOWN") <=> (~C2_Cashflow /\ ~C2_Morningstar /\ ~C2_AjBell)

C2_Witness ==
  /\ pc # "start"
  /\ C2_Has(<<"aj", " ", "bell">>)
  /\ C2_Morningstar
  /\ provider = "AJ_BELL"

\* C3: a label without an extractor (UNKNOWN, CASHFLOW) ends in the fixed record
\* with provider, error, accounts and total_value and no performance key, built
\* without calling an extractor; and no other returned record has an error field.
C3_FallbackRecord ==
  /\ (Ended /\ provider \in {"UNKNOWN", "CASHFLOW"}) =>
       /\ Returned
       /\ invoked = "fallback"
       /\ DOMAIN result = {"provider", "error", "accounts", "total_value"}
       /\ result.provider = "Unknown"
       /\ result.error = "Provider not recognized"
       /\ result.accounts = <<>>
       /\ result.total_value = [n |-> 0, d |-> 1]
  /\ (Returned /\ "error" \in DOMAIN result) => provider \in {"UNKNOWN", "CASHFLOW"}
  /\ (Ended /\ provider \in {"AJ_BELL", "MORNINGSTAR"}) => invoked # "fallback"

C3_Witness ==
  /\ Returned
  /\ provider = "CASHFLOW"
  /\ invoked = "fallback"
  /\ result.error = "Provider not recognized"

(* Positions in the text, found by scanning it. *)
At(i) == IF i \in 1..Len(text) THEN text[i] ELSE "<end>"
PhraseAt(i, words) == \A j \in 1..Len(words) : At(i + j - 1) = words[j]
HasPhrase(words) == \E i \in 1..Len(text) : PhraseAt(i, words)
First(S) == CHOOSE i \in S : \A j \in S : i <= j

RECURSIVE PastBlanks(_)
PastBlanks(i) == IF At(i) \in {" ", "\n"} THEN PastBlanks(i + 1) ELSE i

RECURSIVE PastDigitsCommas(_)
PastDigitsCommas(i) ==
  IF At(i) \in Digit \cup {","} THEN PastDigitsCommas(i + 1) ELSE i

RECURSIVE PastDigitsDots(_)
PastDigitsDots(i) ==
  IF At(i) \in Digit \cup {"."} THEN PastDigitsDots(i + 1) ELSE i

\* the position after the amount (digits and commas, a dot, two digits) at i, or 0
AmountEnd(i) ==
  LET k == PastDigitsCommas(i)
  IN IF k > i /\ At(k) = "." /\ At(k + 1) \in Digit /\ At(k + 2) \in Digit
       THEN k + 3 ELSE 0

\* the amount at i in hundredths: its digits read as one integer
RECURSIVE Hundredths(_, _, _)
Hundredths(i, e, acc) ==
  IF i >= e THEN acc
  ELSE Hundredths(i + 1, e, IF At(i) \in Digit THEN 10 * acc + DigitVal(At(i)) ELSE acc)

\* where a span that began before i ends: at the first of the closing phrases
\* from i on, else at the end of the text (before a last newline)
SpanEnd(i, closers) ==
  First({j \in i..(Len(text) + 1) :
           \/ \E c \in closers : PhraseAt(j, c)
           \/ j = Len(text) + 1
           \/ (j = Len(text) /\ At(j) = "\n")})

(* AJ Bell: the Total row and the summary line of the ISA span. *)
AjHeading == <<"ISA", " ", "-", " ", "Performance", " ", "summary">>
AjClosers == {<<"ISA", " ", "-", " ", "Performance", " ", "Analysis">>,
              <<"ISA", " ", "-", " ", "Holdings">>}

\* the start of the second amount of a row  Total - <amount> - <amount>  at i, or 0
TotalRowSecond(i) ==
  LET a == PastBlanks(i + 1)
      b == PastBlanks(a + 1)
      e1 == AmountEnd(b)
      c == PastBlanks(e1)
      d == PastBlanks(c + 1)
  IN IF /\ At(i) = "Total" /\ a > i + 1 /\ At(a) = "-" /\ b > a + 1
        /\ e1 > 0 /\ c > e1 /\ At(c) = "-" /\ d > c + 1 /\ AmountEnd(d) > 0
       THEN d ELSE 0

\* a currency amount followed by a percentage, at i and ending by position e
SummaryAmountAt(i, e) ==
  LET ae == AmountEnd(i + 1)
      b == PastBlanks(ae)
      k == PastDigitsDots(b)
  IN At(i) = "£" /\ ae > 0 /\ b > ae /\ k > b /\ At(k) = "%" /\ k + 1 <= e

C5_ExpectedHundredths ==
  LET rows == {i \in 1..Len(text) : TotalRowSecond(i) > 0}
      hs == First({i \in 1..Len(text) : PhraseAt(i, AjHeading)})
      he == SpanEnd(hs + Len(AjHeading), AjClosers)
      sums == {i \in hs..he : SummaryAmountAt(i, he)}
  IN IF rows # {}
       THEN LET d == TotalRowSecond(First(rows)) IN Hundredths(d, AmountEnd(d), 0)
     ELSE IF sums # {}
       THEN Hundredths(First(sums) + 1, AmountEnd(First(sums) + 1), 0)
     ELSE 0

\* C5: in a record returned for an AJ Bell text with the ISA heading, the ISA
\* account's value is the second amount of the first row "Total - a - a" of the
\* text when there is one, else the first currency amount followed by a
\* percentage inside the ISA span, else 0.
C5_IsaValuePreference ==
  (Returned /\ provider = "AJ_BELL" /\ HasPhrase(AjHeading)) =>
    /\ Len(result.accounts) >= 1
    /\ result.accounts[1].type = "ISA"
    /\ result.accounts[1].value.n * 100
         = C5_ExpectedHundredths * result.accounts[1].value.d

\* the heading, then the row "Total - 1,234.56 - 2,345.67", then "ISA - Holdings"
C5_Witness ==
  /\ Returned
  /\ provider = "AJ_BELL"
  /\ \E h, r, b \in 1..Len(text) :
        /\ h < r /\ r < b
        /\ PhraseAt(h, AjHeading)
        /\ PhraseAt(r, <<"Total", " ", "-", " ", "1", ",", "2", "3", "4", ".", "5", "6",
                         " ", "-", " ", "2", ",", "3", "4", "5", ".", "6", "7">>)
        /\ PhraseAt(b, <<"ISA", " ", "-", " ", "Holdings">>)
  /\ result.accounts[1].value = [n |-> 234567, d |-> 100]

\* the performance fields of a sequence of accounts added up, as a fraction
\* <<numerator, denominator>> that is not reduced
RECURSIVE C7_Fold(_, _, _)
C7_Fold(accounts, i, acc) ==
  IF i > Len(accounts) THEN acc
  ELSE C7_Fold(accounts, i + 1,
               <<acc[1] * accounts[i].performance.d + accounts[i].performance.n * acc[2],
                 acc[2] * accounts[i].performance.d>>)

C7_HasOneYearReturn ==
  /\ "performance" \in DOMAIN result
  /\ "oneYearReturn" \in DOMAIN result.performance

\* C7: a returned record holds performance.oneYearReturn exactly when it holds
\* an account; from the Morningstar extractor it is the sum of the accounts'
\* performance divided by their number, from the AJ Bell extractor it is the
\* first account's performance.
C7_OneYearReturn ==
  Returned =>
    /\ C7_HasOneYearReturn <=> (result.accounts # <<>>)
    /\ (C7_HasOneYearReturn /\ provider = "MORNINGSTAR") =>
         LET sum == C7_Fold(result.accounts, 1, <<0, 1>>)
             oyr == result.performance.oneYearReturn
         IN oyr.n * sum[2] * Len(result.accounts) = sum[1] * oyr.d
    /\ (C7_HasOneYearReturn /\ provider = "AJ_BELL") =>
         result.performance.oneYearReturn = result.accounts[1].performance

\* ISA 4.0 and SIPP 6.0 give 5.0
C7_Witness ==
  /\ Returned
  /\ provider = "MORNINGSTAR"
  /\ Len(result.accounts) = 2
  /\ result.accounts[1].performance = [n |-> 4, d |-> 1]
  /\ result.accounts[2].performance = [n |-> 6, d |-> 1]
  /\ result.performance.oneYearReturn = [n |-> 5, d |-> 1]

(* Morningstar: the first span of a wrapper kind and the valuation inside it. *)
MsHeading == <<"Investment", " ", "held", ":">>

\* a span of the kind starts at i: the heading, blanks if any, the kind
KindAt(i, kind) == PhraseAt(i, MsHeading) /\ At(PastBlanks(i + Len(MsHeading))) = kind
HasSpan(kind) == \E i \in 1..Len(text) : KindAt(i, kind)
SpanStart(kind) == First({i \in 1..Len(text) : KindAt(i, kind)})
SpanStop(kind) == SpanEnd(PastBlanks(SpanStart(kind) + Len(MsHeading)) + 1, {MsHeading})

\* the start of the amount of "Portfolio Valuation £<amount>" at i, ending by e; or 0
ValuationAt(i, e) ==
  LET q == PastBlanks(i + 3)
  IN IF /\ PhraseAt(i, <<"Portfolio", " ", "Valuation">>) /\ At(q) = "£"
        /\ AmountEnd(q + 1) > 0 /\ AmountEnd(q + 1) <= e
       THEN q + 1 ELSE 0

\* the valuations inside the first span of the kind
Valuations(kind) ==
  IF HasSpan(kind)
    THEN {i \in SpanStart(kind)..SpanStop(kind) : ValuationAt(i, SpanStop(kind)) > 0}
    ELSE {}

Kinds == {"ISA", "SIPP"}
AccountsOf(kind) == {i \in 1..Len(result.accounts) : result.accounts[i].type = kind}

\* C10: a record the Morningstar extractor returns has at most two accounts, at
\* most one of each kind, the ISA account ahead of the SIPP account; an account
\* of a kind is there exactly when the first span of that kind in the text holds
\* a valuation, and its value is the first valuation of that first span.
C10_FirstSpanPerKind ==
  (Returned /\ provider = "MORNINGSTAR") =>
    /\ Len(result.accounts) <= 2
    /\ \A i \in 1..Len(result.accounts) : result.accounts[i].type \in Kinds
    /\ \A k \in Kinds : Cardinality(AccountsOf(k)) <= 1
    /\ \A i, j \in 1..Len(result.accounts) :
         (result.accounts[i].type = "ISA" /\ result.accounts[j].type = "SIPP") => i < j
    /\ \A k \in Kinds :
         /\ (AccountsOf(k) # {}) <=> (Valuations(k) # {})
         /\ \A i \in AccountsOf(k) :
              LET a == ValuationAt(First(Valuations(k)), SpanStop(k))
              IN result.accounts[i].value.n * 100
                   = Hundredths(a, AmountEnd(a), 0) * result.accounts[i].value.d

\* the SIPP span comes first in the text, and the ISA account first in the record
C10_Witness ==
  /\ Returned
  /\ provider = "MORNINGSTAR"
  /\ HasSpan("ISA") /\ HasSpan("SIPP")
  /\ SpanStart("SIPP") < SpanStart("ISA")
  /\ Len(result.accounts) = 2
  /\ result.accounts[1].type = "ISA"
  /\ result.accounts[2].type = "SIPP"

\* C4, as claimed: when the Morningstar extractor has run, an account of a kind
\* has been appended exactly when the first span of that kind holds a valuation.
C4_AccountIffValuation ==
  (Ended /\ provider = "MORNINGSTAR") =>
    \A k \in Kinds :
      (Returned /\ AccountsOf(k) # {}) <=> (Valuations(k) # {})

\* C6, as claimed: when the AJ Bell extractor has run, there is exactly one
\* account, of type ISA, if the text holds the heading, and no account, a total of
\* 0 and no oneYearReturn if it does not; a SIPP section added to the text
\* changes no field.
C6_OneIsaAccountIffHeading ==
  (Ended /\ provider = "AJ_BELL") =>
    /\ Returned
    /\ IF HasPhrase(AjHeading)
         THEN Len(result.accounts) = 1 /\ result.accounts[1].type = "ISA"
         ELSE /\ result.accounts = <<>>
              /\ result.total_value = [n |-> 0, d |-> 1]
              /\ "oneYearReturn" \notin DOMAIN result.performance
    /\ extract_aj_bell(text \o <<"\n", "SIPP", " ", "-", " ", "Performance", " ",
                                 "summary", "\n">>) = result

AccountFields ==
  {"type", "provider", "account_number", "value", "contributions", "return",
   "performance"}

\* C8, as claimed: every account of every returned record has the seven fields
\* of the data model, account_number among them.
C8_SevenFields ==
  Returned =>
    \A i \in 1..Len(result.accounts) : DOMAIN result.accounts[i] = AccountFields

\* C9, as claimed: for a text classified AJ_BELL or MORNINGSTAR the extraction
\* ends by returning a record; no exception leaves it.
C9_NeverRaises ==
  (Ended /\ provider \in {"AJ_BELL", "MORNINGSTAR"}) => Returned

====
